---- MODULE Spec2Model ----
(***************************************************************************)
(* A model of webapp/api/api/solr_utils.py: the five public operations     *)
(* that drive a Solr server (collections_available, search_collection,     *)
(* import_all_concepts, drop_collection, ensure_concept_searchable), the   *)
(* process-wide cache SOLR_INDEX_SCHEMA, and the Solr server as far as the *)
(* operations observe it (its collections and their documents).            *)
(*                                                                         *)
(* The process is single-threaded and every HTTP call blocks, so at most   *)
(* one operation is in progress: pc = "idle" between operations.  Every    *)
(* remote call is appended to `calls` with the status the server gave.     *)
(* The server may fail any request; a request that it answers 200 has its  *)
(* effect, a request that it answers otherwise has none.                   *)
(***************************************************************************)
EXTENDS Integers, Sequences, FiniteSets, TLC

\* ------------------------------------------------------------ bounds
\* The largest concept dictionary has MaxConcepts concepts.
MaxConcepts == 3
\* The chunk size of import_all_concepts (5000 in the code), scaled down so
\* that dictionaries of 0, 1, ChunkSize and more than ChunkSize concepts occur.
ChunkSize == 2
\* At most MaxOps operations are started in one behaviour.
MaxOps == 2

\* ------------------------------------------------------------ constants
\* The only status the code takes for success.
HTTP_OK == 200
\* rows=15 of the select URL.
Rows == 15

\* ------------------------------------------------------------ data
\* The ConceptDB rows (cdb_model): an id and a name.
ModelIds == {1, 2}

ModelName(id) == IF id = 1 THEN "umls" ELSE "snomed"

\* collection_name = f'{cdb_model.name}_id_{cdb_model.id}'
CollectionName(id) == ModelName(id) \o "_id_" \o ToString(id)

AllCollections == [id \in ModelIds |-> CollectionName(id)]

Colls == {CollectionName(id) : id \in ModelIds}

\* The names two editions of a dictionary give a concept; the lengths differ,
\* which is what search_collection sorts by.
NameTable == <<"flu", "fever", "gout (disorder)", "mumps", "asthma", "rubella">>

\* cdb.get_name(cui)
get_name(cdb, cui) ==
    LET n == Len(NameTable)
        k == IF cdb.edition = 1 THEN ((cui - 1) % n) + 1 ELSE n - ((cui - 1) % n)
    IN NameTable[k]

\* A CDB: cui2names in iteration order, and the edition its names come from.
Prefix(n) == [j \in 1..n |-> j]

Reversed(n) == [j \in 1..n |-> n + 1 - j]

CDBs == {[order |-> Prefix(n), edition |-> 1] : n \in 0..MaxConcepts}
        \cup {[order |-> Reversed(MaxConcepts), edition |-> 2]}

\* The document of a concept.  Of its fields only cui and pretty_name are
\* read back by search_collection; name, type_ids, desc, synonyms, icd10 and
\* opcs4 travel with them and are not modelled.
_concept_dct(cui, cdb) == [cui |-> ToString(cui), pretty_name |-> get_name(cdb, cui)]

\* All documents of a CDB, in iteration order.
DocsOf(cdb) == [j \in 1..Len(cdb.order) |-> _concept_dct(cdb.order[j], cdb)]

\* One remote call as the log keeps it: the request (kind, collection,
\* commit flag, documents posted, query) and the answer (status, body).
Call(kind, coll, status, body, commit, docs, q) ==
    [kind |-> kind, coll |-> coll, status |-> status, body |-> body,
     commit |-> commit, docs |-> docs, q |-> q]

Range(s) == {s[j] : j \in 1..Len(s)}

\* ------------------------------------------------------------ state
VARIABLES
    solr_collections,   \* the collections the server holds
    solr_docs,          \* per collection, the documents added, in order
    solr_visible,       \* per collection, the documents as of the last commit
    SOLR_INDEX_SCHEMA,  \* the cache: collection name -> [cui |-> type]
    pc,                 \* where the operation in progress is; "idle" if none
    op,                 \* the operation in progress, or the last one
    calls,              \* the remote calls of that operation, in order
    outcome,            \* how it ended: "returned", "server_error", "raised"
    logged,             \* the gravest log record it wrote
    message,            \* the collection a server-error response names
    nops,               \* operations started so far
    server0,            \* history: the server when the operation started
    collection_name,    \* import/ensure/drop/search: the collection
    cdb,                \* import/ensure: the CDB
    cui,                \* ensure: the concept (0 if none)
    it,                 \* import: position of cui2name_iter
    i,                  \* import: the inner for loop's counter
    payload,            \* import: the documents gathered for the next upload
    cdbs,               \* search: the cdb ids still to query
    query,              \* search: the words of the query, suffixed
    uniq_results_map,   \* search: parsed documents, first of each cui, in order
    res,                \* search: the results returned
    todo                \* collections_available: collections still to cache

server == <<solr_collections, solr_docs, solr_visible>>

session == <<nops, op, server0>>

locals == <<collection_name, cdb, cui, it, i, payload, cdbs, query,
            uniq_results_map, res, todo>>

vars == <<solr_collections, solr_docs, solr_visible, SOLR_INDEX_SCHEMA, pc, op,
          calls, outcome, logged, message, nops, server0, collection_name, cdb, cui, it,
          i, payload, cdbs, query, uniq_results_map, res, todo>>

NoCdb == [order |-> <<>>, edition |-> 1]

\* The locals at the start of an operation on collection coll.
Locals(coll, c, u, ids, q) ==
    /\ collection_name' = coll
    /\ cdb' = c
    /\ cui' = u
    /\ it' = 1
    /\ i' = 0
    /\ payload' = <<>>
    /\ cdbs' = ids
    /\ query' = q
    /\ uniq_results_map' = <<>>
    /\ res' = <<>>

\* An operation starts: the process is idle.
Begin(name) ==
    /\ pc = "idle"
    /\ nops < MaxOps
    /\ nops' = nops + 1
    /\ op' = name
    /\ server0' = server

\* An operation goes on to its next step.
Goto(label) ==
    /\ pc' = label
    /\ outcome' = "none"
    /\ logged' = "none"
    /\ message' = ""

\* An operation ends.
End(how, log, msg) ==
    /\ pc' = "idle"
    /\ outcome' = how
    /\ logged' = log
    /\ message' = msg

\* The process starts with an empty cache.  The server outlives the process:
\* each collection is absent, or holds what an earlier complete import left
\* (of the full dictionary, in the edition of its ConceptDB row).
InitCDB(id) == IF id = 1 THEN [order |-> Prefix(MaxConcepts), edition |-> 1]
                         ELSE [order |-> Reversed(MaxConcepts), edition |-> 2]

Init ==
    /\ solr_collections \in SUBSET Colls
    /\ solr_docs = [c \in Colls |->
                       IF c \in solr_collections
                          THEN DocsOf(InitCDB(CHOOSE id \in ModelIds : CollectionName(id) = c))
                          ELSE <<>>]
    /\ solr_visible = solr_docs
    /\ SOLR_INDEX_SCHEMA = <<>>
    /\ pc = "idle"
    /\ op = "none"
    /\ calls = <<>>
    /\ outcome = "none"
    /\ logged = "none"
    /\ message = ""
    /\ nops = 0
    /\ server0 = server
    /\ collection_name = ""
    /\ cdb = NoCdb
    /\ cui = 0
    /\ it = 1
    /\ i = 0
    /\ payload = <<>>
    /\ cdbs = <<>>
    /\ query = <<>>
    /\ uniq_results_map = <<>>
    /\ res = <<>>
    /\ todo = <<>>

\* ------------------------------------------------------------ the server
\* A request the server fails: some status other than 200, and Solr's error
\* object as the body.
Refused == [status |-> 500, body |-> "error"]

\* What the server may answer: it may fail any request (the body is then
\* Solr's error object), and answers 200 only when the request can take effect.
Answers(possible) ==
    {Refused}
    \cup (IF possible THEN {[status |-> HTTP_OK, body |-> "ok"]} ELSE {})

\* action=LIST: the collections, in the server's order.
Listing == SelectSeq([j \in 1..Cardinality(ModelIds) |-> AllCollections[j]],
                     LAMBDA c : c \in solr_collections)

\* action=DELETE answered 200.
Deleted(coll) ==
    /\ solr_collections' = solr_collections \ {coll}
    /\ solr_docs' = [solr_docs EXCEPT ![coll] = <<>>]
    /\ solr_visible' = [solr_visible EXCEPT ![coll] = <<>>]

\* action=CREATE answered 200.
Created(coll) ==
    /\ solr_collections' = solr_collections \cup {coll}
    /\ solr_docs' = [solr_docs EXCEPT ![coll] = <<>>]
    /\ solr_visible' = [solr_visible EXCEPT ![coll] = <<>>]

\* /update answered 200: the documents are added, and visible once committed.
Updated(coll, data, commit) ==
    /\ solr_collections' = solr_collections
    /\ solr_docs' = [solr_docs EXCEPT ![coll] = @ \o data]
    /\ solr_visible' = [solr_visible EXCEPT ![coll] = IF commit THEN solr_docs[coll] \o data ELSE @]

\* ------------------------------------------------------------ helpers
\* _solr_error_response: logs an error and raises, whatever the body holds.
_solr_error_response == End("raised", "error", "")

\* update_url = f'{update_url}?commit=true' if commit else update_url
UpdateUrlCommit(commit) == commit

\* A variant of UploadFailed that takes every answer for a success.
UploadFailed_Never(status) == FALSE

\* if resp.status_code == 200: ... elif resp.status_code != 200: (error)
UploadFailed(status) == status # HTTP_OK

\* _upload_payload: the POST and what the server does with it.  The caller
\* goes on only if not UploadFailed(status).
_upload_payload(coll, data, commit, ans) ==
    /\ calls' = Append(calls, Call("UPDATE", coll, ans.status, ans.body,
                                   UpdateUrlCommit(commit), data, ""))
    /\ IF ans.status = HTTP_OK
          THEN Updated(coll, data, UpdateUrlCommit(commit))
          ELSE UNCHANGED server

\* ------------------------------------------------------------ drop_collection
drop_collection ==
    \E id \in ModelIds :
    \E ans \in Answers(CollectionName(id) \in solr_collections) :
        /\ Begin("drop_collection")
        /\ Locals(CollectionName(id), NoCdb, 0, <<>>, <<>>)
        /\ todo' = <<>>
        /\ calls' = <<Call("DELETE", CollectionName(id), ans.status, ans.body, FALSE, <<>>, "")>>
        /\ IF ans.status = HTTP_OK
              THEN Deleted(CollectionName(id)) /\ End("returned", "info", "")
              ELSE UNCHANGED server /\ End("returned", "warning", "")
        /\ UNCHANGED SOLR_INDEX_SCHEMA

\* ------------------------------------------------------------ import_all_concepts
\* if resp.status_code != 200: (log, raise)
ListFailed(status) == status # HTTP_OK

\* if collection_name in collections: (delete it)
ShouldDelete(coll, collections) == coll \in Range(collections)

\* A variant of CreateFailed that goes on whatever CREATE answered.
CreateFailed_Never(status) == FALSE

\* if resp.status_code != 200: _solr_error_response(...)
CreateFailed(status) == status # HTTP_OK

\* A variant of ChunkFull whose range is one too long.
ChunkFull_OneMore(n) == n = ChunkSize + 1

\* for i in range(5000): the inner loop has run its course
ChunkFull(n) == n = ChunkSize

\* A variant of PayloadAfterUpload that forgets to empty the payload.
PayloadAfterUpload_Kept(p) == p

\* payload = [] after an upload inside the loop
PayloadAfterUpload(p) == <<>>

\* The LIST request, and the raise when it fails.
import_list ==
    \E id \in ModelIds, c \in CDBs, ans \in Answers(TRUE) :
        /\ Begin("import_all_concepts")
        /\ Locals(CollectionName(id), c, 0, <<>>, <<>>)
        /\ todo' = <<>>
        /\ calls' = <<Call("LIST", "", ans.status, ans.body, FALSE, <<>>, "")>>
        /\ IF ListFailed(ans.status)
              THEN End("raised", "error", "")
              ELSE Goto(IF ShouldDelete(CollectionName(id), Listing)
                           THEN "import_delete" ELSE "import_create")
        /\ UNCHANGED <<server, SOLR_INDEX_SCHEMA>>

\* The DELETE request; its response is not looked at.
import_delete ==
    /\ pc = "import_delete"
    /\ \E ans \in Answers(collection_name \in solr_collections) :
        /\ calls' = Append(calls, Call("DELETE", collection_name, ans.status, ans.body,
                                       FALSE, <<>>, ""))
        /\ IF ans.status = HTTP_OK THEN Deleted(collection_name) ELSE UNCHANGED server
    /\ Goto("import_create")
    /\ UNCHANGED <<SOLR_INDEX_SCHEMA, session, locals>>

\* The CREATE request; a failure raises through _solr_error_response.
import_create ==
    /\ pc = "import_create"
    /\ \E ans \in Answers(collection_name \notin solr_collections) :
        /\ calls' = Append(calls, Call("CREATE", collection_name, ans.status, ans.body,
                                       FALSE, <<>>, ""))
        /\ IF ans.status = HTTP_OK THEN Created(collection_name) ELSE UNCHANGED server
        /\ IF CreateFailed(ans.status) THEN _solr_error_response ELSE Goto("import_loop")
    /\ UNCHANGED <<SOLR_INDEX_SCHEMA, session, locals>>

\* cui, name = next(cui2name_iter); payload.append(_concept_dct(cui, cdb))
import_next ==
    /\ pc = "import_loop"
    /\ ~ChunkFull(i)
    /\ it <= Len(cdb.order)
    /\ payload' = Append(payload, _concept_dct(cdb.order[it], cdb))
    /\ it' = it + 1
    /\ i' = i + 1
    /\ Goto("import_loop")
    /\ UNCHANGED <<server, SOLR_INDEX_SCHEMA, session, calls, collection_name, cdb,
                   cui, cdbs, query, uniq_results_map, res, todo>>

\* The for loop ended: upload the chunk without commit and start the next.
import_upload_chunk ==
    /\ pc = "import_loop"
    /\ ChunkFull(i)
    /\ \E ans \in Answers(collection_name \in solr_collections) :
        /\ _upload_payload(collection_name, payload, FALSE, ans)
        /\ IF UploadFailed(ans.status) THEN _solr_error_response ELSE Goto("import_loop")
        /\ payload' = IF UploadFailed(ans.status) THEN payload ELSE PayloadAfterUpload(payload)
        /\ i' = IF UploadFailed(ans.status) THEN i ELSE 0
    /\ UNCHANGED <<SOLR_INDEX_SCHEMA, session, collection_name, cdb, cui, it,
                   cdbs, query, uniq_results_map, res, todo>>

\* except StopIteration: upload what is left (possibly nothing), with commit.
import_upload_last ==
    /\ pc = "import_loop"
    /\ ~ChunkFull(i)
    /\ it > Len(cdb.order)
    /\ \E ans \in Answers(collection_name \in solr_collections) :
        /\ _upload_payload(collection_name, payload, TRUE, ans)
        /\ IF UploadFailed(ans.status) THEN _solr_error_response ELSE Goto("import_count")
    /\ UNCHANGED <<SOLR_INDEX_SCHEMA, session, locals>>

\* The final select q=*:*&rows=0; only its body is read.
import_count ==
    /\ pc = "import_count"
    /\ \E ans \in Answers(collection_name \in solr_collections) :
        /\ calls' = Append(calls, Call("SELECT", collection_name, ans.status, ans.body,
                                       FALSE, <<>>, "*:*"))
        /\ IF ans.body = "ok" THEN End("returned", "info", "") ELSE End("raised", "none", "")
    /\ UNCHANGED <<server, SOLR_INDEX_SCHEMA, session, locals>>

import_all_concepts ==
    \/ import_list
    \/ import_delete
    \/ import_create
    \/ import_next
    \/ import_upload_chunk
    \/ import_upload_last
    \/ import_count

\* ------------------------------------------------------------ ensure_concept_searchable
\* if resp.status_code != 200: (read the collections and upload)
EnsureProceeds(status) == status # HTTP_OK

\* What the server may answer LIST when it does not answer 200: nothing
\* rules out a body that still carries the collections.
ListAnswers ==
    Answers(TRUE) \cup {[Refused EXCEPT !.body = "ok"]}

\* The LIST request and the branch on its status.
ensure_list ==
    \E id \in ModelIds, c \in CDBs, ans \in ListAnswers :
    \E u \in Range(c.order) :
        /\ Begin("ensure_concept_searchable")
        /\ Locals(CollectionName(id), c, u, <<>>, <<>>)
        /\ todo' = <<>>
        /\ calls' = <<Call("LIST", "", ans.status, ans.body, FALSE, <<>>, "")>>
        /\ IF EnsureProceeds(ans.status)
              THEN IF ans.body # "ok"
                      THEN End("raised", "none", "")
                      ELSE IF CollectionName(id) \in Range(Listing)
                              THEN Goto("ensure_upload")
                              ELSE End("returned", "none", "")
              ELSE End("returned", "none", "")
        /\ UNCHANGED <<server, SOLR_INDEX_SCHEMA>>

\* _upload_payload(..., data, collection, commit=True); data is the one
\* document of the concept.
ensure_upload ==
    /\ pc = "ensure_upload"
    /\ \E ans \in Answers(collection_name \in solr_collections) :
        /\ _upload_payload(collection_name, <<_concept_dct(cui, cdb)>>, TRUE, ans)
        /\ IF UploadFailed(ans.status)
              THEN _solr_error_response
              ELSE End("returned", "info", "")
    /\ UNCHANGED <<SOLR_INDEX_SCHEMA, session, locals>>

ensure_concept_searchable ==
    \/ ensure_list
    \/ ensure_upload

\* ------------------------------------------------------------ the schema cache
CuiTypes == {"plongs", "text_general"}

\* What the server may answer a schema request: the schema with the type of
\* its cui field, a schema with no cui field, or a failure.
SchemaAnswers(coll) ==
    {Refused}
    \cup (IF coll \in solr_collections
             THEN {[status |-> HTTP_OK, body |-> t] : t \in CuiTypes \cup {"no_cui"}}
             ELSE {})

\* SOLR_INDEX_SCHEMA[collection] = {'cui': cui_type}
_cache_solr_collection_schema_types(cache, collection, cui_type) ==
    [c \in DOMAIN cache \cup {collection} |->
        IF c = collection THEN [cui |-> cui_type] ELSE cache[c]]

\* The schema request of _cache_solr_collection_schema_types and its write;
\* without a cui field in the answer the lookup raises and nothing is written.
FetchSchema(coll, ans) ==
    /\ calls' = Append(IF pc = "idle" THEN <<>> ELSE calls,
                       Call("SCHEMA", coll, ans.status, ans.body, FALSE, <<>>, ""))
    /\ SOLR_INDEX_SCHEMA' = IF ans.body \in CuiTypes
                               THEN _cache_solr_collection_schema_types(SOLR_INDEX_SCHEMA, coll, ans.body)
                               ELSE SOLR_INDEX_SCHEMA

\* ------------------------------------------------------------ collections_available
\* if resp.status_code == 200:
ListOk(status) == status = HTTP_OK

\* The LIST request.  The response body ({'results': ...}) is not modelled.
collections_available_list ==
    \E ans \in Answers(TRUE) :
        /\ Begin("collections_available")
        /\ Locals("", NoCdb, 0, <<>>, <<>>)
        /\ calls' = <<Call("LIST", "", ans.status, ans.body, FALSE, <<>>, "")>>
        /\ IF ListOk(ans.status)
              THEN todo' = Listing /\ Goto("collections_available_cache")
              ELSE todo' = <<>> /\ End("server_error", "none", "")
        /\ UNCHANGED <<server, SOLR_INDEX_SCHEMA>>

\* for col in collections: _cache_solr_collection_schema_types(col)
collections_available_cache ==
    /\ pc = "collections_available_cache"
    /\ todo # <<>>
    /\ \E ans \in SchemaAnswers(Head(todo)) :
        /\ FetchSchema(Head(todo), ans)
        /\ IF ans.body \in CuiTypes
              THEN todo' = Tail(todo) /\ Goto("collections_available_cache")
              ELSE todo' = todo /\ End("raised", "none", "")
    /\ UNCHANGED <<server, session, collection_name, cdb, cui, it, i, payload,
                   cdbs, query, uniq_results_map, res>>

\* return Response({'results': ...})
collections_available_return ==
    /\ pc = "collections_available_cache"
    /\ todo = <<>>
    /\ End("returned", "none", "")
    /\ UNCHANGED <<server, SOLR_INDEX_SCHEMA, session, calls, locals>>

collections_available ==
    \/ collections_available_list
    \/ collections_available_cache
    \/ collections_available_return

\* ------------------------------------------------------------ search_collection
\* A word of the query with the suffix line 50 gives it: '~1', or '*' on the last.
Suffixed(words) ==
    [j \in 1..Len(words) |-> <<words[j], IF j < Len(words) THEN "~1" ELSE "*">>]

\* The token as the string it is.
Str(tok) == tok[1] \o tok[2]

\* tok[:-1]
ButLast(tok) == IF tok[2] = "*" THEN tok[1] ELSE tok[1] \o "~"

\* The words int() accepts.
NumericWords == {"2"}

\* The queries, as query.strip().split(' ') leaves them.
Queries == {<<"">>, <<"2">>, <<"flu">>, <<"heart", "fail">>}

\* The lists of cdb ids a search is asked for.
CdbLists == {<<>>} \cup {<<a>> : a \in ModelIds}
            \cup {p \in ModelIds \X ModelIds : p[1] < p[2]}

\* ''.join([f' name:{q}' for q in query])
NameTerms(q) ==
    LET f[j \in 0..Len(q)] == IF j = 0 THEN "" ELSE f[j - 1] \o " name:" \o Str(q[j])
    IN f[Len(q)]

\* The query string of lines 60-69.
QueryStr(q, cache, coll) ==
    IF ButLast(q[1]) \in NumericWords
       THEN "cui:" \o ButLast(q[1])
       ELSE IF Len(q) > 1
               THEN NameTerms(q)
               ELSE IF cache[coll].cui # "plongs"
                       THEN "cui:" \o ButLast(q[1]) \o " OR name:" \o ButLast(q[1])
                            \o " OR name:" \o Str(q[1])
                       ELSE "name:" \o ButLast(q[1]) \o " OR name:" \o Str(q[1])

\* A variant of NeedsSchemaFetch that fetches the schema on every search.
NeedsSchemaFetch_Always(cache, coll) == TRUE

\* if collection_name not in SOLR_INDEX_SCHEMA:
NeedsSchemaFetch(cache, coll) == coll \notin DOMAIN cache

\* A variant of HasError that never sees the error.
HasError_Never(ans) == FALSE

\* if 'error' in resp:
HasError(ans) == ans.body = "error"

\* What the server may answer a select: an error, no document, or the
\* documents of the collection, at most Rows of them.
SelectAnswers(coll) ==
    {[status |-> Refused.status, body |-> Refused.body, docs |-> <<>>]}
    \cup (IF coll \in solr_collections
             THEN {[status |-> HTTP_OK, body |-> "ok", docs |-> SubSeq(solr_visible[coll], 1, n)] :
                      n \in {0, IF Len(solr_visible[coll]) <= Rows
                                    THEN Len(solr_visible[coll]) ELSE Rows}}
             ELSE {})

\* for d in docs: if d['cui'][0] not in uniq_results_map: (add the parsed doc)
Merge(map, docs) ==
    LET f[j \in 0..Len(docs)] ==
            IF j = 0 THEN map
            ELSE IF \E k \in 1..Len(f[j - 1]) : f[j - 1][k].cui = docs[j].cui
                    THEN f[j - 1]
                    ELSE Append(f[j - 1], [cui |-> docs[j].cui,
                                           pretty_name |-> docs[j].pretty_name])
    IN f[Len(docs)]

\* sorted(..., key=lambda r: len(r['pretty_name'])): a stable sort.
Insert(t, d) ==
    LET k == Cardinality({j \in 1..Len(t) : Len(t[j].pretty_name) <= Len(d.pretty_name)})
    IN SubSeq(t, 1, k) \o <<d>> \o SubSeq(t, k + 1, Len(t))

Sorted(s) ==
    LET f[j \in 0..Len(s)] == IF j = 0 THEN <<>> ELSE Insert(f[j - 1], s[j])
    IN f[Len(s)]

\* Lines 47-53: the query is split and suffixed; an empty query, or no cdbs,
\* returns no results without a remote call.
search_start ==
    \E ids \in CdbLists, words \in Queries :
        /\ Begin("search_collection")
        /\ todo' = <<>>
        /\ calls' = <<>>
        /\ IF Len(words) = 1 /\ words[1] = ""
              THEN Locals("", NoCdb, 0, ids, words) /\ End("returned", "none", "")
              ELSE /\ Locals("", NoCdb, 0, ids, Suffixed(words))
                   /\ IF Len(ids) > 0 THEN Goto("search_loop") ELSE End("returned", "none", "")
        /\ UNCHANGED <<server, SOLR_INDEX_SCHEMA>>

\* for cdb in cdbs: the collection's schema is fetched if the cache lacks it.
search_schema ==
    /\ pc = "search_loop"
    /\ cdbs # <<>>
    /\ NeedsSchemaFetch(SOLR_INDEX_SCHEMA, CollectionName(Head(cdbs)))
    /\ collection_name' = CollectionName(Head(cdbs))
    /\ \E ans \in SchemaAnswers(CollectionName(Head(cdbs))) :
        /\ FetchSchema(CollectionName(Head(cdbs)), ans)
        /\ IF ans.body \in CuiTypes THEN Goto("search_select") ELSE End("raised", "none", "")
    /\ UNCHANGED <<server, session, cdb, cui, it, i, payload, cdbs, query,
                   uniq_results_map, res, todo>>

\* The select request of one cdb: an error ends the search, documents are merged.
search_select ==
    /\ \/ pc = "search_select"
       \/ /\ pc = "search_loop"
          /\ cdbs # <<>>
          /\ ~NeedsSchemaFetch(SOLR_INDEX_SCHEMA, CollectionName(Head(cdbs)))
    /\ collection_name' = CollectionName(Head(cdbs))
    /\ \E ans \in SelectAnswers(CollectionName(Head(cdbs))) :
        /\ calls' = Append(calls, Call("SELECT", CollectionName(Head(cdbs)), ans.status,
                                       ans.body, FALSE, ans.docs,
                                       QueryStr(query, SOLR_INDEX_SCHEMA, CollectionName(Head(cdbs)))))
        /\ IF HasError(ans)
              THEN /\ End("server_error", "none", CollectionName(Head(cdbs)))
                   /\ UNCHANGED <<cdbs, uniq_results_map>>
              ELSE /\ uniq_results_map' = Merge(uniq_results_map, ans.docs)
                   /\ cdbs' = Tail(cdbs)
                   /\ Goto("search_loop")
    /\ UNCHANGED <<server, SOLR_INDEX_SCHEMA, session, cdb, cui, it, i, payload,
                   query, res, todo>>

\* res = sorted(uniq_results_map.values(), ...); return Response({'results': res})
search_return ==
    /\ pc = "search_loop"
    /\ cdbs = <<>>
    /\ res' = Sorted(uniq_results_map)
    /\ End("returned", "none", "")
    /\ UNCHANGED <<server, SOLR_INDEX_SCHEMA, session, calls, collection_name, cdb,
                   cui, it, i, payload, cdbs, query, uniq_results_map, todo>>

search_collection ==
    \/ search_start
    \/ search_schema
    \/ search_select
    \/ search_return

Next ==
    \/ drop_collection
    \/ import_all_concepts
    \/ ensure_concept_searchable
    \/ collections_available
    \/ search_collection

Spec == Init /\ [][Next]_vars

\* ============================================================ the claims
Finished(name) == pc = "idle" /\ op = name

Last(s) == s[Len(s)]

\* The update requests of the operation, in order.
Updates == SelectSeq(calls, LAMBDA c : c.kind = "UPDATE")

\* All documents a sequence of requests carried, in order.
Carried(reqs) ==
    LET f[j \in 0..Len(reqs)] == IF j = 0 THEN <<>> ELSE f[j - 1] \o reqs[j].docs
    IN f[Len(reqs)]

AllCallsOk == \A k \in 1..Len(calls) : calls[k].status = HTTP_OK

ImportSucceeded ==
    /\ Finished("import_all_concepts")
    /\ outcome = "returned"
    /\ AllCallsOk

\* C1: when LIST answers 200 and the collection of cdb_model exists,
\* ensure_concept_searchable posts the concept's document to the collection's
\* update endpoint with commit=true.
C1_EnsureUploads ==
    (/\ Finished("ensure_concept_searchable")
     /\ calls[1].status = HTTP_OK
     /\ collection_name \in solr_collections)
    => \E k \in 1..Len(calls) :
          /\ calls[k].kind = "UPDATE"
          /\ calls[k].coll = collection_name
          /\ calls[k].commit
          /\ calls[k].docs = <<_concept_dct(cui, cdb)>>

\* C2 as stated: in every operation a call has failed exactly when its status
\* is not 200, and a failed call is the operation's last and ends it with a
\* server-error response or an exception raised after an error was logged.
C2_EveryFailureEndsTheOperation ==
    pc = "idle" =>
        /\ \A k \in 1..Len(calls) :
              calls[k].status # HTTP_OK =>
                  /\ k = Len(calls)
                  /\ \/ outcome = "server_error"
                     \/ outcome = "raised" /\ logged = "error"
        /\ outcome \in {"server_error", "raised"} =>
              (calls # <<>> /\ Last(calls).status # HTTP_OK)

\* The requests whose status import_all_concepts inspects.
ImportChecked == {"LIST", "CREATE", "UPDATE"}

\* C2 as amended: a non-200 answer ends the operation, at that call, for the
\* LIST of collections_available (server-error response) and for the LIST,
\* CREATE and update requests of import_all_concepts (exception raised, error
\* logged), and a 200 answer to these never does; drop_collection returns
\* normally after a warning, and import_all_concepts goes on to CREATE
\* whatever DELETE answered.
C2_FailureEndsCheckedCalls ==
    /\ op = "collections_available" /\ calls # <<>> =>
          (calls[1].status # HTTP_OK
              <=> (Len(calls) = 1 /\ pc = "idle" /\ outcome = "server_error"))
    /\ op = "import_all_concepts" =>
          \A k \in 1..Len(calls) :
              /\ calls[k].kind \in ImportChecked =>
                    (calls[k].status # HTTP_OK
                        <=> (/\ k = Len(calls)
                             /\ pc = "idle"
                             /\ outcome = "raised"
                             /\ logged = "error"))
              /\ (calls[k].kind = "DELETE" /\ pc = "idle") =>
                    (k < Len(calls) /\ calls[k + 1].kind = "CREATE")
    /\ Finished("drop_collection") =>
          /\ outcome = "returned"
          /\ calls[1].status # HTTP_OK <=> logged = "warning"

\* An update request of an import was refused, and the import raised.
C2_Witness ==
    /\ Finished("import_all_concepts")
    /\ Len(calls) > 3
    /\ Last(calls).kind = "UPDATE"
    /\ Last(calls).status # HTTP_OK
    /\ outcome = "raised"

\* A step that fetched a schema: it added a SCHEMA call to the log.
FetchedSchema == calls' # calls /\ calls' # <<>> /\ Last(calls').kind = "SCHEMA"

\* C3: the cache is never invalidated: no step removes an entry;
\* drop_collection, import_all_concepts and ensure_concept_searchable leave
\* the cache as it is; an entry is written only by a schema fetch, and it is
\* the fetched collection's; search_collection fetches only the schema of a
\* collection that has no entry.
C3_CacheNeverInvalidated ==
    [][/\ DOMAIN SOLR_INDEX_SCHEMA \subseteq DOMAIN SOLR_INDEX_SCHEMA'
       /\ op' \in {"drop_collection", "import_all_concepts", "ensure_concept_searchable"}
             => SOLR_INDEX_SCHEMA' = SOLR_INDEX_SCHEMA
       /\ SOLR_INDEX_SCHEMA' # SOLR_INDEX_SCHEMA =>
             /\ FetchedSchema
             /\ \A c \in DOMAIN SOLR_INDEX_SCHEMA' :
                   c # Last(calls').coll =>
                       (c \in DOMAIN SOLR_INDEX_SCHEMA
                        /\ SOLR_INDEX_SCHEMA'[c] = SOLR_INDEX_SCHEMA[c])
       /\ (op' = "search_collection" /\ FetchedSchema)
             => Last(calls').coll \notin DOMAIN SOLR_INDEX_SCHEMA
      ]_vars

\* A collection was dropped on the server and its cache entry is still there.
C3_Witness ==
    /\ Finished("drop_collection")
    /\ calls[1].status = HTTP_OK
    /\ collection_name \in DOMAIN SOLR_INDEX_SCHEMA
    /\ collection_name \notin solr_collections

\* C4: when every remote call of import_all_concepts succeeds, the update
\* requests carry the concepts of cdb.cui2names, each once and in iteration
\* order, at most ChunkSize per request; the last request, and only the last,
\* is sent with commit=true.
C4_ChunkedUpload ==
    ImportSucceeded =>
        /\ Carried(Updates) = DocsOf(cdb)
        /\ \A k \in 1..Len(Updates) : Len(Updates[k].docs) <= ChunkSize
        /\ Len(Updates) >= 1
        /\ \A k \in 1..Len(Updates) : Updates[k].commit <=> k = Len(Updates)

\* An import of exactly ChunkSize concepts: one full request without commit,
\* then an empty one with commit.
C4_Witness ==
    /\ ImportSucceeded
    /\ Len(cdb.order) = ChunkSize
    /\ Len(Updates) = 2
    /\ Updates[1].docs = DocsOf(cdb)
    /\ Updates[2].docs = <<>>
    /\ Updates[2].commit

\* C5: import_all_concepts issues LIST, then DELETE exactly if the listed
\* collections hold the collection, then CREATE, then only update requests
\* (and the closing count); if LIST is not answered 200 it raises with no
\* further request and the server as it was; an update request is sent only
\* after a CREATE that was answered 200.
C5_RequestOrder ==
    op = "import_all_concepts" =>
        /\ calls[1].kind = "LIST"
        /\ calls[1].status # HTTP_OK =>
              (Len(calls) = 1 /\ pc = "idle" /\ outcome = "raised" /\ server = server0)
        /\ \A k \in 2..Len(calls) :
              /\ calls[k].kind \in {"DELETE", "CREATE", "UPDATE", "SELECT"}
              /\ calls[k].kind = "DELETE" =>
                    (k = 2 /\ collection_name \in server0[1])
              /\ calls[k].kind = "CREATE" =>
                    /\ calls[k - 1].kind = (IF collection_name \in server0[1]
                                               THEN "DELETE" ELSE "LIST")
                    /\ calls[k - 1].kind = "LIST" => calls[k - 1].status = HTTP_OK
              /\ calls[k].kind = "UPDATE" =>
                    \/ calls[k - 1].kind = "CREATE" /\ calls[k - 1].status = HTTP_OK
                    \/ calls[k - 1].kind = "UPDATE" /\ calls[k - 1].status = HTTP_OK
              /\ calls[k].kind = "SELECT" => calls[k - 1].kind = "UPDATE"

\* An import that deleted the collection, created it again and uploaded.
C5_Witness ==
    /\ Finished("import_all_concepts")
    /\ Len(calls) >= 5
    /\ calls[2].kind = "DELETE"
    /\ calls[3].kind = "CREATE"
    /\ calls[4].kind = "UPDATE"

\* C6: after an import_all_concepts in which every remote call succeeded the
\* collection holds exactly the documents of the cdb, one per concept, all
\* committed, whatever it held before, and the other collections are
\* untouched; so an import into the state the same import left changes
\* nothing.
C6_ImportReplaces ==
    ImportSucceeded =>
        /\ collection_name \in solr_collections
        /\ solr_docs[collection_name] = DocsOf(cdb)
        /\ solr_visible[collection_name] = DocsOf(cdb)
        /\ \A j \in 1..Len(cdb.order) :
              Cardinality({k \in 1..Len(solr_docs[collection_name]) :
                              solr_docs[collection_name][k].cui = ToString(cdb.order[j])}) = 1
        /\ \A c \in Colls \ {collection_name} :
              /\ c \in solr_collections <=> c \in server0[1]
              /\ solr_docs[c] = server0[2][c]
              /\ solr_visible[c] = server0[3][c]
        /\ (/\ collection_name \in server0[1]
            /\ server0[2][collection_name] = DocsOf(cdb)
            /\ server0[3][collection_name] = DocsOf(cdb)) => server = server0

\* An import over a collection that held more documents, of another edition.
C6_Witness ==
    /\ ImportSucceeded
    /\ collection_name \in server0[1]
    /\ Len(server0[2][collection_name]) > Len(cdb.order)
    /\ Len(cdb.order) >= 1
    /\ server0[2][collection_name][1] # DocsOf(cdb)[1]

\* The first select of the search that answered with an error, 0 if none.
FirstError ==
    LET E == {k \in 1..Len(calls) : calls[k].kind = "SELECT" /\ calls[k].body = "error"}
    IN IF E = {} THEN 0 ELSE CHOOSE k \in E : \A j \in E : k <= j

\* C7: if the select of a collection answers with an error, search_collection
\* makes no further request, returns a server-error response that names that
\* collection and none of the documents gathered so far, and has not queried
\* the collections that come later in cdbs.
C7_SearchAllOrNothing ==
    (op = "search_collection" /\ FirstError # 0) =>
        /\ FirstError = Len(calls)
        /\ pc = "idle"
        /\ outcome = "server_error"
        /\ message = calls[FirstError].coll
        /\ res = <<>>
        /\ cdbs # <<>>
        /\ CollectionName(Head(cdbs)) = calls[FirstError].coll
        /\ \A j \in 2..Len(cdbs) : \A k \in 1..Len(calls) :
              calls[k].coll # CollectionName(cdbs[j])

\* A search of two cdbs: the first gave documents, the second an error.
C7_Witness ==
    /\ Finished("search_collection")
    /\ outcome = "server_error"
    /\ Len(uniq_results_map) > 0
    /\ Len(cdbs) = 1
    /\ res = <<>>

====
